---- MODULE Spec2Model ----
(***************************************************************************)
(* Vehicle API (src/main.py): validation of the request bodies, the five  *)
(* endpoints and the vehicles table they read and write, with requests    *)
(* interleaved at the database round trips (query, commit, refresh).      *)
(*                                                                         *)
(* Text values whose characters matter (vin, fuel_type, the lookup key)   *)
(* are sequences of one-character strings over ASCII.  purchase_price is  *)
(* an integer number of thousandths in a request body and an integer      *)
(* number of hundredths in a stored row (column Numeric(10, 2)).          *)
(***************************************************************************)
EXTENDS Integers, Sequences, FiniteSets, TLC

\* ------------------------------------------------------------------ text

Lowers == <<"a","b","c","d","e","f","g","h","i","j","k","l","m",
            "n","o","p","q","r","s","t","u","v","w","x","y","z">>

Uppers == <<"A","B","C","D","E","F","G","H","I","J","K","L","M",
            "N","O","P","Q","R","S","T","U","V","W","X","Y","Z">>

Digits == {"0","1","2","3","4","5","6","7","8","9"}

Range(f) == {f[i] : i \in DOMAIN f}

\* str.upper() and str.lower() on one ASCII character
UpperCh(c) ==
    IF c \in Range(Lowers)
    THEN Uppers[CHOOSE i \in DOMAIN Lowers : Lowers[i] = c]
    ELSE c

LowerCh(c) ==
    IF c \in Range(Uppers)
    THEN Lowers[CHOOSE i \in DOMAIN Uppers : Uppers[i] = c]
    ELSE c

Upper(s) == [i \in DOMAIN s |-> UpperCh(s[i])]

Lower(s) == [i \in DOMAIN s |-> LowerCh(s[i])]

\* str.isalnum(): non-empty and every character a letter or a digit
IsAlnum(s) ==
    /\ Len(s) > 0
    /\ \A i \in DOMAIN s : s[i] \in Range(Lowers) \cup Range(Uppers) \cup Digits

\* SQL LIKE: % matches any run of characters, _ any one character
RECURSIVE Like(_, _)
Like(s, p) ==
    IF p = <<>> THEN s = <<>>
    ELSE IF Head(p) = "%"
         THEN Like(s, Tail(p)) \/ (s # <<>> /\ Like(Tail(s), p))
         ELSE /\ s # <<>>
              /\ (Head(p) = "_" \/ Head(p) = Head(s))
              /\ Like(Tail(s), Tail(p))

\* variant: only the pattern is lower-cased
ILike_PatternOnly(s, p) == Like(s, Lower(p))

\* column.ilike(pattern): lower(column) LIKE lower(pattern)
ILike(s, p) == Like(Lower(s), Lower(p))

\* -------------------------------------------------------------- constants

VinLen == 17

MinYear == 1900

MaxYear == 2025

valid_types == { <<"g","a","s","o","l","i","n","e">>, <<"d","i","e","s","e","l">>,
                 <<"e","l","e","c","t","r","i","c">>, <<"h","y","b","r","i","d">> }

\* ------------------------------------------------------------ validation

\* Field(..., min_length=1) on a plain text field
MinLength1(x) == x # ""

\* @field_validator("vin"): the check, then the value it returns
vin_is_alnum(v) == IsAlnum(v)

\* variant: the validator returns the identifier as given
vin_without_upper(v) == v

vin_must_be_alphanumeric(v) == Upper(v)

\* @field_validator("fuel_type"): the check, then the value it returns
fuel_type_in_valid_types(v) == Lower(v) \in valid_types

fuel_type_must_be_valid(v) == Lower(v)

\* variant: the upper limit one year late
YearInRange_OffByOne(y) == MinYear <= y /\ y <= MaxYear + 1

YearInRange(y) == MinYear <= y /\ y <= MaxYear

\* VehicleUpdate: the seven Field constraints and the fuel_type validator
VehicleUpdate(b) ==
    /\ MinLength1(b.manufacturer_name)
    /\ MinLength1(b.description)
    /\ b.horse_power > 0
    /\ MinLength1(b.model_name)
    /\ YearInRange(b.model_year)
    /\ b.purchase_price > 0
    /\ Len(b.fuel_type) >= 1
    /\ fuel_type_in_valid_types(b.fuel_type)

\* VehicleBase: the eight Field constraints and both validators
VehicleBase(v) ==
    /\ Len(v.vin) = VinLen
    /\ vin_is_alnum(v.vin)
    /\ MinLength1(v.manufacturer_name)
    /\ MinLength1(v.description)
    /\ v.horse_power > 0
    /\ MinLength1(v.model_name)
    /\ YearInRange(v.model_year)
    /\ v.purchase_price > 0
    /\ Len(v.fuel_type) >= 1
    /\ fuel_type_in_valid_types(v.fuel_type)

\* the validated model: what the validators returned
VehicleBaseModel(v) ==
    [v EXCEPT !.vin = vin_must_be_alphanumeric(v.vin),
              !.fuel_type = fuel_type_must_be_valid(v.fuel_type)]

VehicleUpdateModel(b) ==
    [b EXCEPT !.fuel_type = fuel_type_must_be_valid(b.fuel_type)]

\* --------------------------------------------------------------- storage

\* Numeric(10, 2): thousandths to hundredths, half rounded up (prices that
\* reach the column are positive, and below the column's ten digits)
Round2(p) == (p + 5) \div 10

\* VehicleDB(**vehicle.model_dump()) as the row the INSERT stores
VehicleDB(d) ==
    [vin |-> d.vin,
     manufacturer_name |-> d.manufacturer_name,
     description |-> d.description,
     horse_power |-> d.horse_power,
     model_name |-> d.model_name,
     model_year |-> d.model_year,
     purchase_price |-> Round2(d.purchase_price),
     fuel_type |-> d.fuel_type]

\* variant: a table without the primary key
PrimaryKeyConflict_Unchecked(rows, vin) == FALSE

\* vin = Column(String(17), primary_key=True): an INSERT of a stored key fails
PrimaryKeyConflict(rows, vin) == \E r \in rows : r.vin = vin

\* db.query(VehicleDB).filter(VehicleDB.vin.ilike(vin)): the rows .first()
\* may return
FindByVin(rows, vin) == {r \in rows : ILike(r.vin, vin)}

\* the row with a primary key (refresh, UPDATE and DELETE address it)
ByPrimaryKey(rows, vin) == {r \in rows : r.vin = vin}

\* The attributes of a loaded object whose assigned value differs from the
\* loaded one: the unit of work writes these columns and no others.  The
\* loaded price is a two-decimal Decimal and the assigned one a float; the
\* prices of the inputs below are either exact in binary (25000.50) or have
\* three decimals, so the two compare as the numbers do.
Changed(loaded, b) ==
    {f \in {"manufacturer_name", "description", "horse_power", "model_name",
            "model_year", "fuel_type"} : b[f] # loaded[f]}
    \cup (IF b.purchase_price # loaded.purchase_price * 10
          THEN {"purchase_price"} ELSE {})

\* UPDATE vehicles SET <changed columns> WHERE vin = <loaded.vin>, on the
\* row as it is stored now
UpdatedRow(cur, loaded, b) ==
    [f \in DOMAIN cur |->
        IF f \in Changed(loaded, b)
        THEN (IF f = "purchase_price" THEN Round2(b[f]) ELSE b[f])
        ELSE cur[f]]

\* response_model=VehicleBase: the returned row is validated on the way out
\* (purchase_price compared as stored, in hundredths)
ResponseValid(r) ==
    /\ Len(r.vin) = VinLen
    /\ vin_is_alnum(r.vin)
    /\ MinLength1(r.manufacturer_name)
    /\ MinLength1(r.description)
    /\ r.horse_power > 0
    /\ MinLength1(r.model_name)
    /\ YearInRange(r.model_year)
    /\ r.purchase_price > 0
    /\ Len(r.fuel_type) >= 1
    /\ fuel_type_in_valid_types(r.fuel_type)

\* ---------------------------------------------------------------- inputs

\* concurrent requests in flight, and requests received in one run
NumSlots == 2

MaxRequests == 3

MaxSeqRequests == 4

Slots == 1..NumSlots

\* a string of VinLen characters: the prefix, padded with "1"
Pad(prefix) == prefix \o [i \in 1..(VinLen - Len(prefix)) |-> "1"]

gasoline == <<"g","a","s","o","l","i","n","e">>

Diesel == <<"D","i","e","s","e","l">>

snapple == <<"s","n","a","p","p","l","e">>

Body(name, year, price, fuel) ==
    [manufacturer_name |-> name, description |-> "sedan", horse_power |-> 200,
     model_name |-> "Accord", model_year |-> year, purchase_price |-> price,
     fuel_type |-> fuel]

\* 25000.500, 0.004 and 1.236 as prices
V1 == Body("Honda", 1900, 25000500, gasoline)

V2 == Body("Toyota", 2025, 4, Diesel)

V3 == Body("Honda", 2020, 1236, gasoline)

ValidBodies == {V1, V2, V3}

\* V1 with one field outside its constraint
InvalidBodies ==
    { [V1 EXCEPT !.manufacturer_name = ""], [V1 EXCEPT !.description = ""],
      [V1 EXCEPT !.horse_power = 0], [V1 EXCEPT !.model_name = ""],
      [V1 EXCEPT !.model_year = 1899], [V1 EXCEPT !.model_year = 2026],
      [V1 EXCEPT !.purchase_price = 0], [V1 EXCEPT !.purchase_price = -5000],
      [V1 EXCEPT !.fuel_type = snapple], [V1 EXCEPT !.fuel_type = <<>>] }

ValidVins == {Pad(<<"a">>), Pad(<<"A">>), Pad(<<"B">>)}

InvalidVins == {<<"1","2","3">>, Pad(<<"!">>), Pad(<<"_">>), Pad(<<"A">>) \o <<"1">>}

\* lookup keys of the path: case variants, an absent key, a prefix, patterns
Keys == {Pad(<<"a">>), Pad(<<"A">>), Pad(<<"b">>), Pad(<<"c">>), <<"a">>,
         Pad(<<"_">>), <<"%">>}

WithVin(b, vin) ==
    [vin |-> vin,
     manufacturer_name |-> b.manufacturer_name,
     description |-> b.description,
     horse_power |-> b.horse_power,
     model_name |-> b.model_name,
     model_year |-> b.model_year,
     purchase_price |-> b.purchase_price,
     fuel_type |-> b.fuel_type]

None == [none |-> TRUE]

Request(op, key, body) == [op |-> op, key |-> key, body |-> body]

\* the requests of the sequential runs: every kind of input
SeqRequests ==
    {Request("create", None, WithVin(b, v)) : b \in ValidBodies, v \in ValidVins}
    \cup {Request("create", None, WithVin(b, Pad(<<"A">>))) : b \in InvalidBodies}
    \cup {Request("create", None, WithVin(V1, v)) : v \in InvalidVins}
    \cup {Request("update", k, b) : k \in Keys, b \in ValidBodies}
    \cup {Request("update", k, b) : k \in {Pad(<<"a">>), Pad(<<"c">>)}, b \in InvalidBodies}
    \cup {Request("get", k, None) : k \in Keys}
    \cup {Request("delete", k, None) : k \in Keys}
    \cup {Request("list", None, None)}

\* the requests of the interleaved runs: well-formed, on two identifiers
Requests ==
    {Request("create", None, WithVin(V1, Pad(<<"a">>))),
     Request("create", None, WithVin(V2, Pad(<<"A">>))),
     Request("create", None, WithVin(V1, Pad(<<"B">>))),
     Request("update", Pad(<<"a">>), V2),
     Request("update", Pad(<<"a">>), V3),
     Request("get", Pad(<<"a">>), None),
     Request("delete", Pad(<<"A">>), None),
     Request("list", None, None)}

\* ----------------------------------------------------------------- state

VARIABLES
    db,       \* the rows of table vehicles
    req,      \* per slot: the request in flight and where its handler stands
    resp,     \* the response the last step sent (NoResp when it sent none)
    nreq,     \* requests received so far
    origin,   \* history: per stored vin, the create input that wrote the row,
              \* while no update or delete has written it since
    delKeys   \* history: keys whose delete returned 204, no create since

vars == <<db, req, resp, nreq, origin, delKeys>>

Idle == [pc |-> "idle"]

NoResp == [op |-> "none", status |-> 0, detail |-> "none", body |-> None]

Reject(detail) == [status |-> 422, detail |-> detail, body |-> None]

Unhandled == [status |-> 500, detail |-> "unhandled", body |-> None]

\* the handler returned `content`: response_model validates it, a failure
\* is a server error
Respond(code, content) ==
    IF ResponseValid(content)
    THEN [status |-> code, detail |-> "ok", body |-> content]
    ELSE Unhandled

Init ==
    /\ db = {}
    /\ req = [s \in Slots |-> Idle]
    /\ resp = NoResp
    /\ nreq = 0
    /\ origin = {}
    /\ delKeys = {}

\* the transport hands a request to a handler
Receive(s, requests, max) ==
    /\ req[s] = Idle
    /\ nreq < max
    /\ \E r \in requests :
         req' = [req EXCEPT ![s] = [pc |-> "received", op |-> r.op, key |-> r.key,
                                    body |-> r.body]]
    /\ nreq' = nreq + 1
    /\ resp' = NoResp
    /\ UNCHANGED <<db, origin, delKeys>>

\* the handler of slot s ends with response r
Finish(s, r) ==
    /\ req' = [req EXCEPT ![s] = Idle]
    /\ resp' = [op |-> req[s].op, status |-> r.status, detail |-> r.detail,
                body |-> r.body]

At(s, op, pc) == req[s].pc = pc /\ req[s].op = op

\* -------------------------------------------------------------- endpoints

\* GET /vehicle
get_all_vehicles(s) ==
    /\ At(s, "list", "received")
    /\ Finish(s, IF \A r \in db : ResponseValid(r)
                 THEN [status |-> 200, detail |-> "ok", body |-> db]
                 ELSE Unhandled)
    /\ UNCHANGED <<db, nreq, origin, delKeys>>

\* POST /vehicle: the body is validated, then the existence query
create_vehicle_query(s) ==
    /\ At(s, "create", "received")
    /\ IF ~VehicleBase(req[s].body)
       THEN Finish(s, Reject("validation"))
       ELSE LET vehicle == VehicleBaseModel(req[s].body) IN
            IF FindByVin(db, vehicle.vin) # {}
            THEN Finish(s, Reject("duplicate"))
            ELSE /\ req' = [req EXCEPT ![s] = [@ EXCEPT !.pc = "pending"]]
                 /\ resp' = NoResp
    /\ UNCHANGED <<db, nreq, origin, delKeys>>

\* POST /vehicle: db.add, db.commit; any exception is rolled back and
\* answered 422 "Failed to create vehicle".  `fault` is a failure of the
\* storage itself (a lost connection), which any commit may meet.
create_vehicle_commit(s) ==
    /\ At(s, "create", "pending")
    /\ LET vehicle == VehicleBaseModel(req[s].body) IN
       \E fault \in BOOLEAN :
         IF fault \/ PrimaryKeyConflict(db, vehicle.vin)
         THEN /\ Finish(s, Reject("persistence"))
              /\ UNCHANGED <<db, origin, delKeys>>
         ELSE /\ db' = db \cup {VehicleDB(vehicle)}
              /\ req' = [req EXCEPT ![s] = [@ EXCEPT !.pc = "committed",
                                                     !.key = vehicle.vin]]
              /\ resp' = NoResp
              /\ origin' = {o \in origin : o.vin # vehicle.vin}
                             \cup {[vin |-> vehicle.vin, input |-> req[s].body,
                                    slot |-> s, acked |-> FALSE]}
              /\ delKeys' = {}
    /\ UNCHANGED nreq

\* db.refresh(db_vehicle) and the return, shared by create and update: a
\* row that is gone raises inside the try
Refresh(s, code) ==
    LET rows == ByPrimaryKey(db, req[s].key) IN
    IF rows = {}
    THEN /\ Finish(s, Reject("persistence"))
         /\ UNCHANGED origin
    ELSE \E r \in rows :
           /\ Finish(s, Respond(code, r))
           /\ origin' = IF code = 201 /\ ResponseValid(r)
                        THEN {IF o.vin = r.vin /\ o.slot = s
                              THEN [o EXCEPT !.acked = TRUE] ELSE o : o \in origin}
                        ELSE origin

create_vehicle_refresh(s) ==
    /\ At(s, "create", "committed")
    /\ Refresh(s, 201)
    /\ UNCHANGED <<db, nreq, delKeys>>

\* GET /vehicle/{vin}
get_vehicle(s) ==
    /\ At(s, "get", "received")
    /\ LET found == FindByVin(db, req[s].key) IN
       IF found = {}
       THEN Finish(s, Reject("notfound"))
       ELSE \E vehicle \in found : Finish(s, Respond(200, vehicle))
    /\ UNCHANGED <<db, nreq, origin, delKeys>>

\* PUT /vehicle/{vin}: the body is validated, then the lookup
update_vehicle_query(s) ==
    /\ At(s, "update", "received")
    /\ IF ~VehicleUpdate(req[s].body)
       THEN Finish(s, Reject("validation"))
       ELSE LET found == FindByVin(db, req[s].key) IN
            IF found = {}
            THEN Finish(s, Reject("notfound"))
            ELSE \E db_vehicle \in found :
                   /\ req' = [req EXCEPT ![s] =
                                [pc |-> "loaded", op |-> "update", key |-> db_vehicle.vin,
                                 body |-> req[s].body, loaded |-> db_vehicle]]
                   /\ resp' = NoResp
    /\ UNCHANGED <<db, nreq, origin, delKeys>>

\* PUT /vehicle/{vin}: the seven assignments and db.commit; with nothing
\* changed no UPDATE is sent, and an UPDATE that matches no row raises
update_vehicle_commit(s) ==
    /\ At(s, "update", "loaded")
    /\ LET vehicle == VehicleUpdateModel(req[s].body)
           loaded == req[s].loaded
           rows == ByPrimaryKey(db, loaded.vin)
       IN
       IF Changed(loaded, vehicle) = {}
       THEN /\ req' = [req EXCEPT ![s] = [@ EXCEPT !.pc = "committed"]]
            /\ resp' = NoResp
            /\ UNCHANGED <<db, origin>>
       ELSE \E fault \in BOOLEAN :
              IF fault \/ rows = {}
              THEN /\ Finish(s, Reject("persistence"))
                   /\ UNCHANGED <<db, origin>>
              ELSE /\ db' = (db \ rows) \cup {UpdatedRow(cur, loaded, vehicle) : cur \in rows}
                   /\ req' = [req EXCEPT ![s] = [@ EXCEPT !.pc = "committed"]]
                   /\ resp' = NoResp
                   /\ origin' = {o \in origin : o.vin # loaded.vin}
    /\ UNCHANGED <<nreq, delKeys>>

update_vehicle_refresh(s) ==
    /\ At(s, "update", "committed")
    /\ Refresh(s, 200)
    /\ UNCHANGED <<db, nreq, delKeys>>

\* DELETE /vehicle/{vin}: the lookup
delete_vehicle_query(s) ==
    /\ At(s, "delete", "received")
    /\ LET found == FindByVin(db, req[s].key) IN
       IF found = {}
       THEN Finish(s, Reject("notfound"))
       ELSE \E vehicle \in found :
              /\ req' = [req EXCEPT ![s] = [@ EXCEPT !.pc = "loaded",
                                                     !.body = vehicle.vin]]
              /\ resp' = NoResp
    /\ UNCHANGED <<db, nreq, origin, delKeys>>

\* DELETE /vehicle/{vin}: db.delete, db.commit, outside any try; a DELETE
\* that matches no row any more only warns
delete_vehicle_commit(s) ==
    /\ At(s, "delete", "loaded")
    /\ \E fault \in BOOLEAN :
         IF fault
         THEN /\ Finish(s, Unhandled)
              /\ UNCHANGED <<db, origin, delKeys>>
         ELSE /\ db' = db \ ByPrimaryKey(db, req[s].body)
              /\ Finish(s, [status |-> 204, detail |-> "ok", body |-> None])
              /\ origin' = {o \in origin : o.vin # req[s].body}
              /\ delKeys' = delKeys \cup {req[s].key}
    /\ UNCHANGED nreq

\* one step of the handler in slot s
Step(s) ==
    \/ get_all_vehicles(s)
    \/ create_vehicle_query(s)
    \/ create_vehicle_commit(s)
    \/ create_vehicle_refresh(s)
    \/ get_vehicle(s)
    \/ update_vehicle_query(s)
    \/ update_vehicle_commit(s)
    \/ update_vehicle_refresh(s)
    \/ delete_vehicle_query(s)
    \/ delete_vehicle_commit(s)

\* requests interleaved at the database round trips
Next ==
    \E s \in Slots :
        \/ Receive(s, Requests, MaxRequests)
        \/ Step(s)

Spec == Init /\ [][Next]_vars

\* one request at a time
NextSeq ==
    \/ Receive(1, SeqRequests, MaxSeqRequests)
    \/ Step(1)

SpecSeq == Init /\ [][NextSeq]_vars

\* ------------------------------------------------------------ properties

\* equality under case-insensitive comparison
CIEqual(x, y) == Lower(x) = Lower(y)

\* the field constraints of the data model, on the seven mutable fields of an
\* input (prices in thousandths)
MeetsUpdateConstraints(b) ==
    /\ b.manufacturer_name # "" /\ b.description # "" /\ b.model_name # ""
    /\ b.horse_power > 0
    /\ 1900 <= b.model_year /\ b.model_year <= 2025
    /\ b.purchase_price > 0
    /\ Lower(b.fuel_type) \in {Lower(gasoline), Lower(Diesel),
                               <<"e","l","e","c","t","r","i","c">>,
                               <<"h","y","b","r","i","d">>}

MeetsCreateConstraints(v) ==
    /\ Len(v.vin) = 17
    /\ \A i \in DOMAIN v.vin :
         v.vin[i] \in Range(Lowers) \cup Range(Uppers) \cup Digits
    /\ MeetsUpdateConstraints(v)

\* a price in thousandths at the two decimals of the stored column
ToCents(p) == (p + 5) \div 10

\* the handler in slot s takes a step from position pc of operation op
Acts(s, op, pc) == At(s, op, pc) /\ req'[s] # req[s]

Rejected(detail) == resp'.status = 422 /\ resp'.detail = detail

\* the seven mutable fields of row r are those of input b, normalized
HoldsInput(r, b) ==
    /\ r.manufacturer_name = b.manufacturer_name
    /\ r.description = b.description
    /\ r.horse_power = b.horse_power
    /\ r.model_name = b.model_name
    /\ r.model_year = b.model_year
    /\ r.purchase_price = ToCents(b.purchase_price)
    /\ r.fuel_type = Lower(b.fuel_type)

\* C1: in every reachable state no two stored rows have identifiers that are
\* equal under case-insensitive comparison.
C1_UniqueIdentifiers ==
    \A r1 \in db : \A r2 \in db : CIEqual(r1.vin, r2.vin) => r1 = r2

\* two rows are stored and a racing create has just lost on the primary key
C1_Witness ==
    /\ Cardinality(db) = 2
    /\ resp.op = "create" /\ resp.detail = "persistence"

\* C2: a create whose input meets the constraints and whose identifier equals
\* a stored row's identifier case-insensitively is rejected 422 as a
\* duplicate, and the stored rows are unchanged.
C2_DuplicateRejected ==
    [][\A s \in Slots :
         ( /\ Acts(s, "create", "received")
           /\ MeetsCreateConstraints(req[s].body)
           /\ \E r \in db : CIEqual(r.vin, req[s].body.vin) )
         => (Rejected("duplicate") /\ db' = db /\ req'[s] = Idle)]_vars

\* a lower-case identifier was rejected as a duplicate of a stored row
C2_Witness ==
    /\ resp.op = "create" /\ resp.detail = "duplicate"
    /\ \E r \in db : r.vin = Pad(<<"A">>)
    /\ \E o \in origin : o.acked

C4_MissIsNotFound ==
    [][\A s \in Slots :
         ( /\ req[s].pc = "received"
           /\ req[s].op \in {"get", "update", "delete"}
           /\ req'[s] # req[s]
           /\ (req[s].op = "update" => MeetsUpdateConstraints(req[s].body))
           /\ ~ \E r \in db : CIEqual(r.vin, req[s].key) )
         => (Rejected("notfound") /\ db' = db /\ req'[s] = Idle)]_vars

\* C5: after delete(id) returned 204 and with no create since, get(id) with
\* the same key is rejected 422 as not found.
C5_DeletedThenNotFound ==
    [][\A s \in Slots :
         (Acts(s, "get", "received") /\ req[s].key \in delKeys)
         => Rejected("notfound")]_vars

\* C6: every stored row satisfies every field constraint, the price as stored.
C6_StoredRecordsValid ==
    \A r \in db :
        /\ Len(r.vin) = 17
        /\ \A i \in DOMAIN r.vin : r.vin[i] \in Range(Uppers) \cup Digits
        /\ r.manufacturer_name # "" /\ r.description # "" /\ r.model_name # ""
        /\ r.horse_power > 0
        /\ 1900 <= r.model_year /\ r.model_year <= 2025
        /\ r.purchase_price > 0
        /\ r.fuel_type \in {Lower(gasoline), Lower(Diesel),
                            <<"e","l","e","c","t","r","i","c">>,
                            <<"h","y","b","r","i","d">>}

\* C7: when the write of update(id, input) on a stored row succeeds, the row
\* keeps its identifier, its seven mutable fields are those of the input
\* (the price at the column's precision) and every other row is unchanged.
C7_UpdateReplacesAll ==
    [][\A s \in Slots :
         ( /\ At(s, "update", "loaded")
           /\ req'[s].pc = "committed"
           /\ \E r \in db : r.vin = req[s].loaded.vin )
         => \E r \in db' :
              /\ r.vin = req[s].loaded.vin
              /\ HoldsInput(r, req[s].body)
              /\ db' \ {r} = {x \in db : x.vin # r.vin}]_vars

\* C8: a create that passed the existence check and whose write meets a row
\* stored meanwhile under a case-insensitively equal identifier is rejected
\* 422 as a duplicate, and the stored rows are unchanged.
C8_RaceLoserIsDuplicate ==
    [][\A s \in Slots :
         ( /\ Acts(s, "create", "pending")
           /\ \E r \in db : CIEqual(r.vin, req[s].body.vin) )
         => (Rejected("duplicate") /\ db' = db)]_vars

\* C9: a create or update whose input violates a field constraint is rejected
\* 422 by validation, before the lookup, and the stored rows are unchanged.
C9_InvalidRejectedFirst ==
    [][\A s \in Slots :
         ( /\ req[s].pc = "received" /\ req'[s] # req[s]
           /\ \/ req[s].op = "create" /\ ~MeetsCreateConstraints(req[s].body)
              \/ req[s].op = "update" /\ ~MeetsUpdateConstraints(req[s].body) )
         => (Rejected("validation") /\ db' = db /\ req'[s] = Idle)]_vars

\* an update of a stored row was rejected by validation
C9_Witness ==
    /\ resp.op = "update" /\ resp.detail = "validation"
    /\ db # {}

\* C10: the write step of create, update or delete never ends in an unhandled
\* error, and a write rejected 422 leaves the stored rows as they were.
C10_NoUnhandledFault ==
    [][\A s \in Slots :
         (req[s].pc \in {"pending", "loaded"} /\ req'[s] # req[s])
         => (resp'.status # 500 /\ (resp'.status = 422 => db' = db))]_vars

====
